---- MODULE Spec2Model ----
(***************************************************************************)
(* download_refseq.py: fetch the RefSeq bacteria assembly catalog, filter *)
(* it, and for every filtered record download its checksum manifest and   *)
(* four assets, verify them by MD5, write the failure sidecar, gunzip the *)
(* archives and log a completion event.                                   *)
(*                                                                         *)
(* Text is modelled as TLA+ strings, processed character by character the *)
(* way the Python string methods do.  The remote servers, the payloads    *)
(* they return and the outcome of gunzip are inputs drawn from small sets.*)
(* The output root is assumed to exist and to be touched by nothing but   *)
(* the program; it survives from one run of the program to the next.      *)
(***************************************************************************)
EXTENDS Integers, Sequences, FiniteSets, TLC

\* ------------------------------------------------------------------ bounds
\* Data rows of the remote catalog.
MaxRows == 3
\* Runs of the program over the same output root.
MaxRuns == 2
\* Lines of a manifest handed to parse_md5checksums_lines on its own.
MaxLines == 3
\* Characters of an asm_name handed to the normalisation on its own.
MaxNameLen == 4
\* Bytes of a response body handed to the file writes on their own.
MaxBodyLen == 3

\* ------------------------------------------------------------ Python text
TAB == "\t"
NL == "\n"

\* str.strip() with no argument strips these.
IsSpace(c) ==
    c \in {" ", "\t", "\n", "\r"}

\* s[i] (1-based) as a one-character string.
CharAt(s, i) ==
    SubSeq(s, i, i)

RECURSIVE LStrip(_)
LStrip(s) ==
    IF s # "" /\ IsSpace(CharAt(s, 1)) THEN LStrip(SubSeq(s, 2, Len(s))) ELSE s

RECURSIVE RStrip(_)
RStrip(s) ==
    IF s # "" /\ IsSpace(CharAt(s, Len(s))) THEN RStrip(SubSeq(s, 1, Len(s) - 1)) ELSE s

\* str.strip()
Strip(s) ==
    RStrip(LStrip(s))

\* The k-th smallest element of a set of positions.
Kth(S, k) ==
    CHOOSE i \in S : Cardinality({ j \in S : j < i }) = k - 1

\* str.split(sep) for a one-character sep: "" gives [''], empty fields are kept.
Split(s, sep) ==
    LET cuts == { i \in 1..Len(s) : CharAt(s, i) = sep }
        n == Cardinality(cuts)
    IN  [ k \in 1..(n + 1) |->
            SubSeq(s, IF k = 1 THEN 1 ELSE Kth(cuts, k - 1) + 1,
                      IF k = n + 1 THEN Len(s) ELSE Kth(cuts, k) - 1) ]

\* str.split() with no argument: runs of whitespace separate, no empty tokens.
SplitWs(s) ==
    LET starts == { i \in 1..Len(s) :
                      ~IsSpace(CharAt(s, i)) /\ (i = 1 \/ IsSpace(CharAt(s, i - 1))) }
        ends == { i \in 1..Len(s) :
                    ~IsSpace(CharAt(s, i)) /\ (i = Len(s) \/ IsSpace(CharAt(s, i + 1))) }
    IN  [ k \in 1..Cardinality(starts) |-> SubSeq(s, Kth(starts, k), Kth(ends, k)) ]

\* str.replace(old, new) for a one-character old.
RECURSIVE Replace(_, _, _)
Replace(s, old, new) ==
    IF s = "" THEN ""
    ELSE (IF CharAt(s, 1) = old THEN new ELSE CharAt(s, 1))
         \o Replace(SubSeq(s, 2, Len(s)), old, new)

\* old in s, for a substring old.
RECURSIVE Contains(_, _)
Contains(s, old) ==
    /\ Len(s) >= Len(old)
    /\ \/ SubSeq(s, 1, Len(old)) = old
       \/ Contains(SubSeq(s, 2, Len(s)), old)

\* str.endswith(suffix)
EndsWith(s, suffix) ==
    /\ Len(s) >= Len(suffix)
    /\ SubSeq(s, Len(s) - Len(suffix) + 1, Len(s)) = suffix

\* sep.join(parts)
RECURSIVE Join(_, _)
Join(parts, sep) ==
    IF parts = << >> THEN ""
    ELSE IF Len(parts) = 1 THEN parts[1]
    ELSE parts[1] \o sep \o Join(Tail(parts), sep)

\* seq[n:] for a list (0-based slice start n).
SliceFrom(seq, n) ==
    SubSeq(seq, n + 1, Len(seq))

\* ------------------------------------------------ the remote servers' data
\* First line of the catalog: a comment banner.
Banner == "# See README"

HeaderFull ==
    "#assembly_accession\trefseq_category\tversion_status\tassembly_level\tasm_name\tftp_path"

\* The catalog after a schema change that dropped refseq_category.
HeaderNoCategory ==
    "#assembly_accession\tversion_status\tassembly_level\tasm_name\tftp_path"

Headers == {HeaderFull, HeaderNoCategory}

RowRepresentative ==
    "GCF_1\trepresentative genome\tlatest\tComplete Genome\tASM 1\tftp/GCF_1_ASM_1"

RowReference ==
    "GCF_2\treference genome\tlatest\tComplete Genome\tASM2\tftp/GCF_2_ASM2"

RowContig ==
    "GCF_3\tna\tlatest\tContig\tASM3\tftp/GCF_3_ASM3"

RowReplaced ==
    "GCF_3\trepresentative genome\treplaced\tComplete Genome\tASM3\tftp/GCF_3_ASM3"

\* A row one column short of HeaderFull (as wide as HeaderNoCategory).
RowShort ==
    "GCF_1\tlatest\tComplete Genome\tASM 1\tftp/GCF_1_ASM_1"

RowPool == {RowRepresentative, RowReference, RowContig, RowReplaced, RowShort}

RECURSIVE ConcatLines(_)
ConcatLines(ls) ==
    IF ls = << >> THEN "" ELSE Head(ls) \o NL \o ConcatLines(Tail(ls))

\* A catalog: banner, header, data rows, each line ended by a newline.
CatalogText(h, rows) ==
    ConcatLines(<< Banner, h >> \o rows)

CatalogTexts ==
    { CatalogText(h, rows) :
        h \in Headers, rows \in UNION { [1..n -> RowPool] : n \in 0..MaxRows } }

\* Payloads an asset URL may return.  "~" stands for one non-ASCII byte.
Payloads == {"ACGT", "ACGA", "caf~"}

\* What the server's manifest was computed from.
TruePayload == "ACGT"

\* ------------------------------------------------- the program's functions
\* dict(zip(header, line_split)) built by assignment: a later duplicate column wins.
MakeRecord(header, line_split) ==
    [ k \in { header[n] : n \in 1..Len(header) } |->
        line_split[CHOOSE n \in 1..Len(header) :
                      /\ header[n] = k
                      /\ \A m \in 1..Len(header) : header[m] = k => m <= n] ]

\* The body of the loop of parse_assembly_summary_lines over the lines it visits.
RECURSIVE ParseLines(_, _)
ParseLines(lines, header) ==
    IF lines = << >> THEN << >>
    ELSE LET line_split == Split(Strip(Head(lines)), TAB)
         IN  (IF Len(line_split) # Len(header) THEN << >>
              ELSE << MakeRecord(header, line_split) >>)
             \o ParseLines(Tail(lines), header)

\* parse_assembly_summary_lines: the loop runs over assembly_summary_lines[1:].
parse_assembly_summary_lines(assembly_summary_lines, assembly_summary_header) ==
    ParseLines(SliceFrom(assembly_summary_lines, 1), assembly_summary_header)

\* main, lines 119-121: drop the banner, take the header, strip '#' from its first name.
CatalogLines(text) ==
    SliceFrom(Split(text, NL), 1)

CatalogHeader(assembly_summary_lines) ==
    LET h == Split(Strip(assembly_summary_lines[1]), TAB)
    IN  [h EXCEPT ![1] = Strip(Replace(h[1], "#", ""))]

\* main, line 122
CatalogRecords(assembly_summary_lines) ==
    LET assembly_summary_header == CatalogHeader(assembly_summary_lines)
    IN  parse_assembly_summary_lines(SliceFrom(assembly_summary_lines, 1),
                                     assembly_summary_header)

\* filter_criteria, in dict order
FilterKeys == << "assembly_level", "version_status", "refseq_category" >>

assembly_level_ok(v) ==
    v = "Complete Genome"

version_status_ok(v) ==
    v = "latest"

refseq_category_ok(v) ==
    v = "representative genome" \/ v = "reference genome"

filter_criteria(k, v) ==
    CASE k = "assembly_level" -> assembly_level_ok(v)
      [] k = "version_status" -> version_status_ok(v)
      [] k = "refseq_category" -> refseq_category_ok(v)

\* Mutant: any(criteria_met) instead of all(criteria_met).
CriteriaMet_Any(rec) ==
    \E n \in 1..Len(FilterKeys) : filter_criteria(FilterKeys[n], rec[FilterKeys[n]])

\* all(criteria_met) for one record, every filter key being present
CriteriaMet(rec) ==
    \A n \in 1..Len(FilterKeys) : filter_criteria(FilterKeys[n], rec[FilterKeys[n]])

\* assembly_summary_record[k] raises KeyError for some record
FilterKeyMissing(assembly_summary) ==
    \E r \in 1..Len(assembly_summary) :
        \E n \in 1..Len(FilterKeys) : FilterKeys[n] \notin DOMAIN assembly_summary[r]

\* main, lines 134-140
FilterRecords(assembly_summary) ==
    SelectSeq(assembly_summary, CriteriaMet)

\* One row of csv.DictWriter: the record's values in fieldnames order.
CsvRow(fieldnames, rec) ==
    [ n \in 1..Len(fieldnames) |-> rec[fieldnames[n]] ]

\* main, lines 143-147: the header row, then one row per filtered record.
FilteredSnapshot(fieldnames, rows) ==
    << fieldnames >> \o [ n \in 1..Len(rows) |-> CsvRow(fieldnames, rows[n]) ]

\* Mutant: an entry already in the dict is not overwritten (first occurrence wins).
RECURSIVE parse_md5checksums_lines_FirstWins(_)
parse_md5checksums_lines_FirstWins(md5checksums_lines) ==
    IF md5checksums_lines = << >> THEN << >>
    ELSE LET n == Len(md5checksums_lines)
             rest == parse_md5checksums_lines_FirstWins(SubSeq(md5checksums_lines, 1, n - 1))
             line_split == SplitWs(Strip(md5checksums_lines[n]))
         IN  IF Len(line_split) = 2
             THEN rest @@ (SliceFrom(line_split[2], 2) :> line_split[1])
             ELSE rest

\* parse_md5checksums_lines
RECURSIVE parse_md5checksums_lines(_)
parse_md5checksums_lines(md5checksums_lines) ==
    IF md5checksums_lines = << >> THEN << >>
    ELSE LET n == Len(md5checksums_lines)
             rest == parse_md5checksums_lines(SubSeq(md5checksums_lines, 1, n - 1))
             line_split == SplitWs(Strip(md5checksums_lines[n]))
         IN  IF Len(line_split) = 2
             THEN (SliceFrom(line_split[2], 2) :> line_split[1]) @@ rest
             ELSE rest

\* Mutant: the archives are fetched before the reports.
file_suffixes_ArchivesFirst ==
    << "genomic.fna.gz", "genomic.gff.gz", "assembly_report.txt", "assembly_stats.txt" >>

file_suffixes ==
    << "assembly_report.txt", "assembly_stats.txt", "genomic.fna.gz", "genomic.gff.gz" >>

chars_to_replace_with_underscores == << " ", "(", ")", "/" >>

RECURSIVE ReplaceAll(_, _)
ReplaceAll(s, chars) ==
    IF chars = << >> THEN s ELSE ReplaceAll(Replace(s, Head(chars), "_"), Tail(chars))

\* re.sub('_+', '_', s)
RECURSIVE CollapseUnderscores(_)
CollapseUnderscores(s) ==
    IF Len(s) < 2 THEN s
    ELSE IF SubSeq(s, 1, 2) = "__" THEN CollapseUnderscores(SubSeq(s, 2, Len(s)))
    ELSE CharAt(s, 1) \o CollapseUnderscores(SubSeq(s, 2, Len(s)))

\* str.replace('__', '_'): one pass from the left over non-overlapping pairs.
RECURSIVE ReplacePairs(_)
ReplacePairs(s) ==
    IF Len(s) < 2 THEN s
    ELSE IF SubSeq(s, 1, 2) = "__" THEN "_" \o ReplacePairs(SubSeq(s, 3, Len(s)))
    ELSE CharAt(s, 1) \o ReplacePairs(SubSeq(s, 2, Len(s)))

\* Mutant: the runs of underscores are shortened by str.replace instead of re.sub.
NormalizeName_ReplacePairs(asm_name) ==
    LET replaced == ReplaceAll(asm_name, chars_to_replace_with_underscores)
    IN  IF Contains(replaced, "__") THEN ReplacePairs(replaced) ELSE replaced

\* download_and_check, lines 72-77
NormalizeName(asm_name) ==
    LET replaced == ReplaceAll(asm_name, chars_to_replace_with_underscores)
    IN  IF Contains(replaced, "__") THEN CollapseUnderscores(replaced) ELSE replaced

\* download_and_check, line 79
AssetFilename(assembly, suffix) ==
    Join(<< assembly["assembly_accession"], NormalizeName(assembly["asm_name"]), suffix >>, "_")

\* hashlib.md5(...).hexdigest(), as a collision-free digest with no whitespace in it
MD5(bytes) ==
    "md5:" \o bytes

\* r.text written through open(..., 'w'): the body decoded as ISO-8859-1 (the
\* default of requests for text/* without a charset) and encoded as UTF-8, which
\* turns every non-ASCII byte into two bytes.  Byte by byte, by halving the text.
RECURSIVE TextRoundTrip(_)
TextRoundTrip(bytes) ==
    IF bytes = "" THEN ""
    ELSE IF Len(bytes) = 1 THEN (IF bytes = "~" THEN "^~" ELSE bytes)
    ELSE LET half == Len(bytes) \div 2
         IN  TextRoundTrip(SubSeq(bytes, 1, half))
             \o TextRoundTrip(SubSeq(bytes, half + 1, Len(bytes)))

\* download_and_check, lines 82-87: what lands on disk for a fetched body
Persisted(filename, body) ==
    IF EndsWith(filename, ".gz") THEN body ELSE TextRoundTrip(body)

\* gunzip <file>: the output replaces the input under the name without ".gz"
GunzipName(filename) ==
    SubSeq(filename, 1, Len(filename) - 3)

GunzipBytes(bytes) ==
    "gunzip:" \o bytes

\* The file md5checksums_failed.txt: each failed name followed by a newline.
FailedSidecar(md5checksums_failed) ==
    ConcatLines(md5checksums_failed)

\* ------------------------------------------- what the asset server publishes
\* Last component of ftp_path: the server names a record's files after it.
Basename(path) ==
    LET parts == Split(path, "/") IN parts[Len(parts)]

RemoteFilename(assembly, suffix) ==
    Basename(assembly["ftp_path"]) \o "_" \o suffix

ManifestLine(assembly, suffix) ==
    MD5(TruePayload) \o "  ./" \o RemoteFilename(assembly, suffix)

\* The suffixes a served manifest may list: all four, or all but genomic.fna.gz.
ManifestSuffixLists ==
    { file_suffixes,
      << "assembly_report.txt", "assembly_stats.txt", "genomic.gff.gz" >> }

\* A manifest: one line per listed file, plus a line for a file the program ignores.
ManifestText(assembly, suffixes) ==
    ConcatLines([ n \in 1..Len(suffixes) |-> ManifestLine(assembly, suffixes[n]) ]
                \o << MD5(TruePayload) \o "  ./annotation_hashes.txt" >>)

ManifestTexts(assembly) ==
    { ManifestText(assembly, suffixes) : suffixes \in ManifestSuffixLists }

\* ------------------------------------------------------------------ state
VARIABLES
    catalog,                    \* the text the catalog URL serves
    snapshots,                  \* <outdir>/*.tsv: file name -> rows written
    dirs,                       \* <outdir>/<accession>/: accession -> (file name -> bytes)
    events,                     \* the download_complete events logged so far
    run,                        \* number of the current run of the program
    pc,                         \* the step the current run is about to take
    error,                      \* the exception that ended the current run, or ""
    assembly_summary_lines,     \* main's locals
    assembly_summary_header,
    assembly_summary,
    assembly_summary_filtered,
    idx,                        \* position of main's last loop in assembly_summary_filtered
    md5checksums,               \* download_and_check's locals
    md5checksums_failed,
    suffix_idx,                 \* position of the loop over file_suffixes
    gzip_files,                 \* what is left of the loop over the glob
    trace,                      \* history: the steps the current run has taken
    mkdirs,                     \* history: accession -> successful os.makedirs calls
    prev_done,                  \* history: the previous run reached the end of main
    present,                    \* history: the records whose directory existed at line 152
    verdicts,                   \* history: how line 89 went for each asset of this call
    gunzipped,                  \* history: the files this call has run gunzip on
    fn,                         \* function specification: the function called, or ""
    arg,                        \* function specification: its arguments
    ret                         \* function specification: what it returned

vars ==
    << catalog, snapshots, dirs, events, run, pc, error, assembly_summary_lines,
       assembly_summary_header, assembly_summary, assembly_summary_filtered, idx,
       md5checksums, md5checksums_failed, suffix_idx, gzip_files, trace, mkdirs,
       prev_done, present, verdicts, gunzipped, fn, arg, ret >>

main_locals ==
    << assembly_summary_lines, assembly_summary_header, assembly_summary,
       assembly_summary_filtered, idx, present >>

call_locals ==
    << md5checksums, md5checksums_failed, suffix_idx, gzip_files, verdicts, gunzipped >>

disk ==
    << snapshots, dirs, mkdirs >>

fixed ==
    << catalog, run, prev_done, fn, arg, ret >>

FullName == "assembly_summary_full.tsv"
FilteredName == "assembly_summary_filtered.tsv"
ManifestName == "md5checksums.txt"
SidecarName == "md5checksums_failed.txt"

NoFiles == [ f \in {} |-> "" ]

Init ==
    /\ catalog \in CatalogTexts
    /\ snapshots = NoFiles
    /\ dirs = NoFiles
    /\ events = << >>
    /\ run = 1
    /\ pc = "FetchCatalog"
    /\ error = ""
    /\ assembly_summary_lines = << >>
    /\ assembly_summary_header = << >>
    /\ assembly_summary = << >>
    /\ assembly_summary_filtered = << >>
    /\ idx = 1
    /\ md5checksums = NoFiles
    /\ md5checksums_failed = << >>
    /\ suffix_idx = 1
    /\ gzip_files = << >>
    /\ trace = << >>
    /\ mkdirs = NoFiles
    /\ prev_done = FALSE
    /\ present = {}
    /\ verdicts = << >>
    /\ gunzipped = {}
    /\ fn = ""
    /\ arg = << >>
    /\ ret = << >>

\* The current run takes step `step`; rec is the filtered record it belongs to (0: none).
Took(step, rec) ==
    trace' = Append(trace, [step |-> step, rec |-> rec])

\* An exception nobody catches ends the run.
Raise(exc) ==
    /\ pc' = "Aborted"
    /\ error' = exc

\* The record download_and_check is working on.
assembly ==
    assembly_summary_filtered[idx]

assembly_outdir ==
    assembly["assembly_accession"]

\* open(path, 'w'/'wb') and write: create or replace the file.
WriteFile(dir, filename, bytes) ==
    (filename :> bytes) @@ dir

\* os.remove
RemoveFile(dir, filename) ==
    [ f \in (DOMAIN dir) \ {filename} |-> dir[f] ]

\* ----------------------------------------------------------------- main
\* lines 117-122: fetch the catalog and parse it
FetchCatalog ==
    /\ pc = "FetchCatalog"
    /\ LET lines == CatalogLines(catalog)
       IN  /\ assembly_summary_lines' = lines
           /\ assembly_summary_header' = CatalogHeader(lines)
           /\ assembly_summary' = CatalogRecords(lines)
    /\ pc' = "WriteFullSnapshot"
    /\ Took("FetchCatalog", 0)
    /\ UNCHANGED << assembly_summary_filtered, idx, present, error, events >>
    /\ UNCHANGED << call_locals, disk, fixed >>

\* line 117 raising requests.ConnectionError
FetchCatalogFails ==
    /\ pc = "FetchCatalog"
    /\ Raise("ConnectionError")
    /\ Took("FetchCatalog", 0)
    /\ UNCHANGED << main_locals, call_locals, disk, fixed, events >>

\* lines 124-126: the file is opened for writing and nothing is written to it
FullSnapshot == << >>

WriteFullSnapshot ==
    /\ pc = "WriteFullSnapshot"
    /\ snapshots' = WriteFile(snapshots, FullName, FullSnapshot)
    /\ pc' = "Filter"
    /\ Took("WriteFullSnapshot", 0)
    /\ UNCHANGED << main_locals, call_locals, dirs, mkdirs, fixed, error, events >>

\* Mutant: the loop over the records starts right after filtering, before the
\* filtered snapshot is written.
Filter_ThenLoop ==
    /\ pc = "Filter"
    /\ IF FilterKeyMissing(assembly_summary)
       THEN /\ Raise("KeyError")
            /\ UNCHANGED assembly_summary_filtered
       ELSE /\ assembly_summary_filtered' = FilterRecords(assembly_summary)
            /\ pc' = "CheckIdempotency"
            /\ UNCHANGED error
    /\ Took("Filter", 0)
    /\ UNCHANGED << assembly_summary_lines, assembly_summary_header, assembly_summary,
                    idx, present >>
    /\ UNCHANGED << call_locals, disk, fixed, events >>

\* Mutant: a record that lacks a filter field is taken not to match (dict.get).
Filter_MissingFieldNoMatch ==
    /\ pc = "Filter"
    /\ assembly_summary_filtered' =
           SelectSeq(assembly_summary,
                     LAMBDA rec : /\ \A n \in 1..Len(FilterKeys) : FilterKeys[n] \in DOMAIN rec
                                  /\ CriteriaMet(rec))
    /\ pc' = "WriteFilteredSnapshot"
    /\ Took("Filter", 0)
    /\ UNCHANGED << assembly_summary_lines, assembly_summary_header, assembly_summary,
                    idx, present, error >>
    /\ UNCHANGED << call_locals, disk, fixed, events >>

\* lines 128-140
Filter ==
    /\ pc = "Filter"
    /\ IF FilterKeyMissing(assembly_summary)
       THEN /\ Raise("KeyError")
            /\ UNCHANGED assembly_summary_filtered
       ELSE /\ assembly_summary_filtered' = FilterRecords(assembly_summary)
            /\ pc' = "WriteFilteredSnapshot"
            /\ UNCHANGED error
    /\ Took("Filter", 0)
    /\ UNCHANGED << assembly_summary_lines, assembly_summary_header, assembly_summary,
                    idx, present >>
    /\ UNCHANGED << call_locals, disk, fixed, events >>

\* lines 143-147
WriteFilteredSnapshot ==
    /\ pc = "WriteFilteredSnapshot"
    /\ snapshots' = WriteFile(snapshots, FilteredName,
                              FilteredSnapshot(assembly_summary_header, assembly_summary_filtered))
    /\ pc' = "CheckIdempotency"
    /\ Took("WriteFilteredSnapshot", 0)
    /\ UNCHANGED << main_locals, call_locals, dirs, mkdirs, fixed, error, events >>

\* Mutant: the path tested is never that of the record's directory.
Exists_Never(accession) ==
    FALSE

\* Mutant: a directory counts as present only once its failure list is written.
Exists_WhenComplete(accession) ==
    /\ accession \in DOMAIN dirs
    /\ "md5checksums_failed.txt" \in DOMAIN dirs[accession]

\* line 152: os.path.exists(<outdir>/<accession>)
Exists(accession) ==
    accession \in DOMAIN dirs

\* Mutant: a record whose directory exists is fetched and verified again.
SkipRecord_Reverify ==
    /\ pc = "CheckIdempotency"
    /\ idx <= Len(assembly_summary_filtered)
    /\ Exists(assembly["assembly_accession"])
    /\ pc' = "FetchManifest"
    /\ md5checksums' = NoFiles
    /\ md5checksums_failed' = << >>
    /\ suffix_idx' = 1
    /\ gzip_files' = << >>
    /\ verdicts' = << >>
    /\ gunzipped' = {}
    /\ present' = present \cup {idx}
    /\ Took("CheckIdempotency", idx)
    /\ UNCHANGED << assembly_summary_lines, assembly_summary_header, assembly_summary,
                    assembly_summary_filtered, idx, disk, fixed, error, events >>

\* lines 150-152 with the directory present: on to the next record
SkipRecord ==
    /\ pc = "CheckIdempotency"
    /\ idx <= Len(assembly_summary_filtered)
    /\ Exists(assembly["assembly_accession"])
    /\ idx' = idx + 1
    /\ present' = present \cup {idx}
    /\ Took("CheckIdempotency", idx)
    /\ UNCHANGED << assembly_summary_lines, assembly_summary_header, assembly_summary,
                    assembly_summary_filtered, pc, error, events >>
    /\ UNCHANGED << call_locals, disk, fixed >>

\* lines 150-153 with the directory absent: download_and_check is called
CallDownload ==
    /\ pc = "CheckIdempotency"
    /\ idx <= Len(assembly_summary_filtered)
    /\ ~Exists(assembly["assembly_accession"])
    /\ pc' = "CreateDir"
    /\ md5checksums' = NoFiles
    /\ md5checksums_failed' = << >>
    /\ suffix_idx' = 1
    /\ gzip_files' = << >>
    /\ verdicts' = << >>
    /\ gunzipped' = {}
    /\ present' = IF assembly["assembly_accession"] \in DOMAIN dirs
                  THEN present \cup {idx} ELSE present
    /\ Took("CheckIdempotency", idx)
    /\ UNCHANGED << assembly_summary_lines, assembly_summary_header, assembly_summary,
                    assembly_summary_filtered, idx, disk, fixed, error, events >>

\* line 150 with the list exhausted: main returns
Done ==
    /\ pc = "CheckIdempotency"
    /\ idx > Len(assembly_summary_filtered)
    /\ pc' = "Done"
    /\ Took("Done", 0)
    /\ UNCHANGED << main_locals, call_locals, disk, fixed, error, events >>

\* ---------------------------------------------------- download_and_check
\* lines 53-54: os.makedirs raises FileExistsError on an existing directory
CreateDir ==
    /\ pc = "CreateDir"
    /\ IF Exists(assembly_outdir)
       THEN /\ Raise("FileExistsError")
            /\ UNCHANGED << dirs, mkdirs >>
       ELSE /\ dirs' = (assembly_outdir :> NoFiles) @@ dirs
            /\ mkdirs' = (assembly_outdir :>
                              IF assembly_outdir \in DOMAIN mkdirs
                              THEN mkdirs[assembly_outdir] + 1 ELSE 1) @@ mkdirs
            /\ pc' = "FetchManifest"
            /\ UNCHANGED error
    /\ Took("CreateDir", idx)
    /\ UNCHANGED << main_locals, call_locals, snapshots, fixed, events >>

\* lines 62-68: fetch the manifest, write it as served, parse it
FetchManifest ==
    /\ pc = "FetchManifest"
    /\ \E text \in ManifestTexts(assembly) :
          /\ dirs' = [dirs EXCEPT ![assembly_outdir] =
                         WriteFile(@, ManifestName, Persisted(ManifestName, text))]
          /\ md5checksums' = parse_md5checksums_lines(Split(text, NL))
    /\ pc' = "FetchAsset"
    /\ Took("FetchManifest", idx)
    /\ UNCHANGED << main_locals, md5checksums_failed, suffix_idx, gzip_files, verdicts,
                    gunzipped, snapshots, mkdirs, fixed, error, events >>

\* Mutant: the error is caught and the loop of main goes on with the next record.
FetchManifestFails_Continue ==
    /\ pc = "FetchManifest"
    /\ idx' = idx + 1
    /\ pc' = "CheckIdempotency"
    /\ Took("FetchManifest", idx)
    /\ UNCHANGED << assembly_summary_lines, assembly_summary_header, assembly_summary,
                    assembly_summary_filtered, present, call_locals, disk, fixed, error,
                    events >>

\* line 63 raising requests.ConnectionError
FetchManifestFails ==
    /\ pc = "FetchManifest"
    /\ Raise("ConnectionError")
    /\ Took("FetchManifest", idx)
    /\ UNCHANGED << main_locals, call_locals, disk, fixed, events >>

\* Mutant: the comparison inverted.
Mismatch_Inverted(md5, filename) ==
    md5 = md5checksums[filename]

\* line 89: the verdict on a file just written
Mismatch(md5, filename) ==
    md5 # md5checksums[filename]

\* lines 78-91 for one suffix: fetch, write, hash, look up, compare
FetchAsset ==
    /\ pc = "FetchAsset"
    /\ \E body \in Payloads :
          LET filename == AssetFilename(assembly, file_suffixes[suffix_idx])
              written == WriteFile(dirs[assembly_outdir], filename, Persisted(filename, body))
              md5 == MD5(written[filename])
          IN  IF filename \notin DOMAIN md5checksums
              THEN /\ dirs' = [dirs EXCEPT ![assembly_outdir] = written]
                   /\ Raise("KeyError")
                   /\ verdicts' = Append(verdicts, "ManifestMissing")
                   /\ UNCHANGED << md5checksums_failed, suffix_idx >>
              ELSE /\ verdicts' = Append(verdicts,
                                         IF md5 = md5checksums[filename]
                                         THEN "Verified" ELSE "ChecksumMismatch")
                   /\ IF Mismatch(md5, filename)
                      THEN /\ dirs' = [dirs EXCEPT ![assembly_outdir] =
                                          RemoveFile(written, filename)]
                           /\ md5checksums_failed' = Append(md5checksums_failed, filename)
                      ELSE /\ dirs' = [dirs EXCEPT ![assembly_outdir] = written]
                           /\ UNCHANGED md5checksums_failed
                   /\ suffix_idx' = suffix_idx + 1
                   /\ pc' = IF suffix_idx = Len(file_suffixes)
                            THEN "WriteFailureList" ELSE "FetchAsset"
                   /\ UNCHANGED error
    /\ Took("FetchAsset", idx)
    /\ UNCHANGED << main_locals, md5checksums, gzip_files, gunzipped, snapshots, mkdirs,
                    fixed, events >>

\* line 81 raising requests.ConnectionError
FetchAssetFails ==
    /\ pc = "FetchAsset"
    /\ Raise("ConnectionError")
    /\ Took("FetchAsset", idx)
    /\ UNCHANGED << main_locals, call_locals, disk, fixed, events >>

\* lines 93-95
WriteFailureList ==
    /\ pc = "WriteFailureList"
    /\ dirs' = [dirs EXCEPT ![assembly_outdir] =
                   WriteFile(@, SidecarName, FailedSidecar(md5checksums_failed))]
    /\ pc' = "Glob"
    /\ Took("WriteFailureList", idx)
    /\ UNCHANGED << main_locals, call_locals, snapshots, mkdirs, fixed, error, events >>

\* Mutant: the pattern is '*' instead of '*.gz'.
GzFiles_All(dir) ==
    DOMAIN dir

\* The files glob('<assembly_outdir>/*.gz') matches.
GzFiles(dir) ==
    { f \in DOMAIN dir : EndsWith(f, ".gz") }

\* The orders in which glob may list a set of files.
Listings(S) ==
    { l \in [1..Cardinality(S) -> S] : \A a, b \in 1..Cardinality(S) : l[a] = l[b] => a = b }

\* line 97: glob lists in directory order, which is arbitrary
Glob ==
    /\ pc = "Glob"
    /\ gzip_files' \in Listings(GzFiles(dirs[assembly_outdir]))
    /\ pc' = "Extract"
    /\ Took("Glob", idx)
    /\ UNCHANGED << main_locals, md5checksums, md5checksums_failed, suffix_idx, verdicts,
                    gunzipped, disk, fixed, error, events >>

\* Mutant: gunzip --keep: the archive stays beside its decompressed copy.
Gunzip_KeepInput ==
    /\ pc = "Extract"
    /\ gzip_files # << >>
    /\ LET gzip_file == Head(gzip_files)
           dir == dirs[assembly_outdir]
       IN  dirs' = [dirs EXCEPT ![assembly_outdir] =
                       WriteFile(dir, GunzipName(gzip_file), GunzipBytes(dir[gzip_file]))]
    /\ gzip_files' = Tail(gzip_files)
    /\ gunzipped' = gunzipped \cup {Head(gzip_files)}
    /\ Took("Gunzip", idx)
    /\ UNCHANGED << main_locals, md5checksums, md5checksums_failed, suffix_idx, verdicts,
                    snapshots, mkdirs, fixed, pc, error, events >>

\* lines 98-103 for one file, gunzip exiting 0
Gunzip ==
    /\ pc = "Extract"
    /\ gzip_files # << >>
    /\ LET gzip_file == Head(gzip_files)
           dir == dirs[assembly_outdir]
       IN  dirs' = [dirs EXCEPT ![assembly_outdir] =
                       WriteFile(RemoveFile(dir, gzip_file),
                                 GunzipName(gzip_file), GunzipBytes(dir[gzip_file]))]
    /\ gzip_files' = Tail(gzip_files)
    /\ gunzipped' = gunzipped \cup {Head(gzip_files)}
    /\ Took("Gunzip", idx)
    /\ UNCHANGED << main_locals, md5checksums, md5checksums_failed, suffix_idx, verdicts,
                    snapshots, mkdirs, fixed, pc, error, events >>

\* Mutant: subprocess.run without check=True: the failure is noted and the loop goes on.
GunzipFails_Unchecked ==
    /\ pc = "Extract"
    /\ gzip_files # << >>
    /\ error' = "CalledProcessError"
    /\ gzip_files' = Tail(gzip_files)
    /\ gunzipped' = gunzipped \cup {Head(gzip_files)}
    /\ Took("Gunzip", idx)
    /\ UNCHANGED << main_locals, md5checksums, md5checksums_failed, suffix_idx, verdicts,
                    disk, fixed, pc, events >>

\* lines 98-103 for one file, gunzip exiting non-zero: check=True raises
GunzipFails ==
    /\ pc = "Extract"
    /\ gzip_files # << >>
    /\ Raise("CalledProcessError")
    /\ gunzipped' = gunzipped \cup {Head(gzip_files)}
    /\ Took("Gunzip", idx)
    /\ UNCHANGED << main_locals, md5checksums, md5checksums_failed, suffix_idx, gzip_files,
                    verdicts, disk, fixed, events >>

\* Mutant: the event counts the files that passed instead of those that failed.
CompletionEvent_CountsVerified ==
    [ event_type |-> "download_complete",
      assembly_accession |-> assembly["assembly_accession"],
      num_md5_checksums_failed |-> Len(file_suffixes) - Len(md5checksums_failed) ]

\* line 104
CompletionEvent ==
    [ event_type |-> "download_complete",
      assembly_accession |-> assembly["assembly_accession"],
      num_md5_checksums_failed |-> Len(md5checksums_failed) ]

\* What one call of logging.info adds to the log; run stands for the timestamp.
Logged(event) ==
    << [run |-> run, message |-> event] >>

\* line 104, then back to main's loop
Emit ==
    /\ pc = "Extract"
    /\ gzip_files = << >>
    /\ events' = events \o Logged(CompletionEvent)
    /\ idx' = idx + 1
    /\ pc' = "CheckIdempotency"
    /\ Took("Emit", idx)
    /\ UNCHANGED << assembly_summary_lines, assembly_summary_header, assembly_summary,
                    assembly_summary_filtered, present, call_locals, disk, fixed, error >>

\* ------------------------------------------------------ process termination
\* The process is terminated from outside (SIGKILL, power loss) between two steps:
\* no handler runs, the locals are lost with the process, the disk stays as it is.
Kill ==
    /\ pc \notin {"Done", "Aborted"}
    /\ fn = ""
    /\ Raise("Killed")
    /\ UNCHANGED << main_locals, call_locals, disk, fixed, events, trace >>

\* ------------------------------------------------------------- the next run
\* The program is started again over the same output root: a new process.
StartRun ==
    /\ pc \in {"Done", "Aborted"}
    /\ run < MaxRuns
    /\ run' = run + 1
    /\ prev_done' = (pc = "Done")
    /\ pc' = "FetchCatalog"
    /\ error' = ""
    /\ assembly_summary_lines' = << >>
    /\ assembly_summary_header' = << >>
    /\ assembly_summary' = << >>
    /\ assembly_summary_filtered' = << >>
    /\ idx' = 1
    /\ md5checksums' = NoFiles
    /\ md5checksums_failed' = << >>
    /\ suffix_idx' = 1
    /\ gzip_files' = << >>
    /\ verdicts' = << >>
    /\ gunzipped' = {}
    /\ present' = {}
    /\ trace' = << >>
    /\ UNCHANGED << catalog, disk, events, fn, arg, ret >>

Next ==
    \/ FetchCatalog
    \/ FetchCatalogFails
    \/ WriteFullSnapshot
    \/ Filter
    \/ WriteFilteredSnapshot
    \/ SkipRecord
    \/ CallDownload
    \/ Done
    \/ CreateDir
    \/ FetchManifest
    \/ FetchManifestFails
    \/ FetchAsset
    \/ FetchAssetFails
    \/ WriteFailureList
    \/ Glob
    \/ Gunzip
    \/ GunzipFails
    \/ Emit
    \/ Kill
    \/ StartRun

Spec ==
    Init /\ [][Next]_vars

\* ================================================ the functions on their own
\* parse_md5checksums_lines, the normalisation of asm_name and the file writes of
\* download_and_check, each called once on an argument drawn from a bounded set.
RECURSIVE StringsOfLen(_, _)
StringsOfLen(chars, n) ==
    IF n = 0 THEN {""}
    ELSE { s \o c : s \in StringsOfLen(chars, n - 1), c \in chars }

StringsUpTo(chars, n) ==
    UNION { StringsOfLen(chars, k) : k \in 0..n }

\* Lines a served md5checksums.txt may hold: entries, a repeated filename, an
\* empty line, lines of one and of three tokens, stray whitespace, a short name.
ManifestLinePool ==
    { "aa  ./f.txt", "bb  ./f.txt", "cc  ./g.gz", "", "orphan",
      "dd ./f.txt extra", " ee\t./g.gz \r", "ff x" }

ManifestLineLists ==
    UNION { [1..n -> ManifestLinePool] : n \in 0..MaxLines }

\* What asm_name may be made of: a letter, the four replaced characters, '_'.
NameChars == {"a", " ", "(", ")", "/", "_"}

Names ==
    StringsUpTo(NameChars, MaxNameLen)

\* What a body may be made of: an ASCII byte, a non-ASCII byte, a newline.
BodyChars == {"A", "~", NL}

Bodies ==
    StringsUpTo(BodyChars, MaxBodyLen)

\* The files download_and_check writes for one record.
WrittenNames ==
    { "GCF_1_ASM_1_" \o file_suffixes[n] : n \in 1..Len(file_suffixes) }

InitFunctions ==
    /\ \/ fn = "parse_md5checksums_lines" /\ arg \in ManifestLineLists
       \/ fn = "assembly_name" /\ arg \in Names
       \/ /\ fn = "write"
          /\ arg \in [filename : WrittenNames, body : Bodies]
    /\ ret = << >>
    /\ pc = "Call"
    /\ catalog = ""
    /\ snapshots = NoFiles
    /\ dirs = NoFiles
    /\ events = << >>
    /\ run = 1
    /\ error = ""
    /\ assembly_summary_lines = << >>
    /\ assembly_summary_header = << >>
    /\ assembly_summary = << >>
    /\ assembly_summary_filtered = << >>
    /\ idx = 1
    /\ md5checksums = NoFiles
    /\ md5checksums_failed = << >>
    /\ suffix_idx = 1
    /\ gzip_files = << >>
    /\ trace = << >>
    /\ mkdirs = NoFiles
    /\ prev_done = FALSE
    /\ present = {}
    /\ verdicts = << >>
    /\ gunzipped = {}

\* lines 67-68: the lines are handed to parse_md5checksums_lines
CallParse ==
    /\ pc = "Call"
    /\ fn = "parse_md5checksums_lines"
    /\ ret' = parse_md5checksums_lines(arg)
    /\ pc' = "Return"
    /\ UNCHANGED << main_locals, call_locals, disk, catalog, run, prev_done, fn, arg,
                    events, error, trace >>

\* lines 72-77
CallNormalize ==
    /\ pc = "Call"
    /\ fn = "assembly_name"
    /\ ret' = NormalizeName(arg)
    /\ pc' = "Return"
    /\ UNCHANGED << main_locals, call_locals, disk, catalog, run, prev_done, fn, arg,
                    events, error, trace >>

\* lines 82-88: the body is written, the file is read back and hashed
CallWrite ==
    /\ pc = "Call"
    /\ fn = "write"
    /\ LET written == WriteFile(NoFiles, arg.filename, Persisted(arg.filename, arg.body))
       IN  ret' = [ bytes |-> written[arg.filename], md5 |-> MD5(written[arg.filename]) ]
    /\ pc' = "Return"
    /\ UNCHANGED << main_locals, call_locals, disk, catalog, run, prev_done, fn, arg,
                    events, error, trace >>

NextFunctions ==
    \/ CallParse
    \/ CallNormalize
    \/ CallWrite

SpecFunctions ==
    InitFunctions /\ [][NextFunctions]_vars

\* ============================================================== properties
\* Helpers of the properties below.
Range(seq) ==
    { seq[n] : n \in 1..Len(seq) }

StepNames ==
    [ n \in 1..Len(trace) |-> trace[n].step ]

\* The steps the current run took for filtered record i.
StepsOf(i) ==
    { trace[n].step : n \in { m \in 1..Len(trace) : trace[m].rec = i } }

\* download_and_check is working on record idx, or was when the run ended.
InCall ==
    /\ trace # << >>
    /\ trace[Len(trace)].rec = idx

AccessionOf(i) ==
    assembly_summary_filtered[i]["assembly_accession"]

\* The events logged by the current run.
EventsOfRun ==
    SelectSeq(events, LAMBDA e : e.run = run)

\* The filtered records main's loop has left behind without skipping them, in order.
Returned ==
    SelectSeq([ n \in 1..(idx - 1) |-> n ], LAMBDA i : i \notin present)

\* Number of newline-terminated lines of a file.
LineCount(bytes) ==
    Len(Split(bytes, NL)) - 1

\* ------------------------------------------------------------------- C1
\* The data rows R of a catalog text: what follows the banner and the header.
DataRows(text) ==
    LET ls == Split(text, NL) IN SubSeq(ls, 3, Len(ls) - 1)

RowsOfWidth(rows, width) ==
    SelectSeq(rows, LAMBDA r : Len(Split(r, TAB)) = width)

\* C1: once main has parsed the catalog, the records are exactly the data rows
\* whose tab-separated token count equals len(H), in their original order, the
\* first data row after the header included.
C1_EveryRowOfHeaderWidthParsed ==
    pc = "WriteFullSnapshot" =>
        LET rows == RowsOfWidth(DataRows(catalog), Len(assembly_summary_header))
        IN  assembly_summary =
                [ n \in 1..Len(rows) |->
                    MakeRecord(assembly_summary_header, Split(rows[n], TAB)) ]

\* ------------------------------------------------------------------- C2
\* C2: an asset whose derived filename has no manifest entry is treated like a
\* mismatch: the run goes on, the persisted file is removed and its name is in
\* the record's failure list.
C2_MissingEntryQuarantined ==
    InCall =>
        \A n \in 1..Len(verdicts) :
            verdicts[n] = "ManifestMissing" =>
                LET filename == AssetFilename(assembly, file_suffixes[n])
                IN  /\ pc # "Aborted"
                    /\ filename \notin DOMAIN dirs[assembly_outdir]
                    /\ filename \in Range(md5checksums_failed)

\* ------------------------------------------------------------------- C3
\* No file of the current call has been gunzipped yet.
BeforeExtraction ==
    "Gunzip" \notin StepsOf(idx)

\* C3: for every asset processed whose filename is in the manifest, a matching
\* MD5 leaves the file in place and out of the failure list, a differing MD5
\* removes it and puts it on the failure list; the failure list is the
\* mismatching filenames in suffix order, and once all four assets are
\* processed the asset files present are exactly the verified ones.
C3_VerdictDecidesRetention ==
    InCall =>
        LET name(n) == AssetFilename(assembly, file_suffixes[n])
            done == 1..Len(verdicts)
            mismatched == SelectSeq([ n \in done |-> n ],
                                    LAMBDA n : verdicts[n] = "ChecksumMismatch")
        IN  /\ \A n \in done :
                 verdicts[n] = "Verified" =>
                     /\ name(n) \notin Range(md5checksums_failed)
                     /\ BeforeExtraction => name(n) \in DOMAIN dirs[assembly_outdir]
            /\ \A n \in done :
                 verdicts[n] = "ChecksumMismatch" =>
                     /\ name(n) \in Range(md5checksums_failed)
                     /\ name(n) \notin DOMAIN dirs[assembly_outdir]
            /\ "ManifestMissing" \notin Range(verdicts) =>
                 md5checksums_failed = [ k \in 1..Len(mismatched) |-> name(mismatched[k]) ]
            /\ pc = "WriteFailureList" =>
                 (DOMAIN dirs[assembly_outdir]) \ {ManifestName}
                     = { name(n) : n \in { m \in done : verdicts[m] = "Verified" } }

C3_Witness ==
    /\ pc = "WriteFailureList"
    /\ "Verified" \in Range(verdicts)
    /\ "ChecksumMismatch" \in Range(verdicts)
    /\ Len(md5checksums_failed) = 2

\* ------------------------------------------------------------------- C4
IsFetch(step) ==
    step \in {"FetchManifest", "FetchAsset"}

\* C4: a record whose directory exists when the loop reaches it is skipped
\* entirely: the run takes no step for it but the existence check, so issues no
\* fetch for it, and leaves its directory as it is; a run that follows a run
\* which reached the end of main, over the same catalog, issues no per-record
\* fetch at all.
C4_PresentRecordSkipped ==
    [][ /\ \A i \in present' :
             /\ StepsOf(i)' \subseteq {"CheckIdempotency"}
             /\ dirs'[AccessionOf(i)] = dirs[AccessionOf(i)]
        /\ prev_done' => \A n \in 1..Len(trace') : ~IsFetch(trace'[n].step)
      ]_vars

C4_Witness ==
    /\ run = 2
    /\ prev_done
    /\ pc = "Done"
    /\ Len(assembly_summary_filtered) = 2
    /\ present = {1, 2}
    /\ AccessionOf(1) # AccessionOf(2)

\* ------------------------------------------------------------------- C5
\* C5: over all runs, os.makedirs is never called on an existing directory (no
\* FileExistsError) and every record directory was created exactly once, also
\* when an accession occurs twice in one filtered list.
C5_DirectoryCreatedOnce ==
    /\ error # "FileExistsError"
    /\ DOMAIN mkdirs = DOMAIN dirs
    /\ \A a \in DOMAIN mkdirs : mkdirs[a] = 1
    /\ \A n \in 1..Len(trace) : trace[n].step = "CreateDir" => trace[n].rec \notin present

C5_Witness ==
    /\ Len(assembly_summary_filtered) = 2
    /\ AccessionOf(1) = AccessionOf(2)
    /\ "CreateDir" \in StepsOf(1)
    /\ present = {2}
    /\ pc = "Done"

\* ------------------------------------------------------------------- C6
FilteredWritten ==
    "WriteFilteredSnapshot" \in Range(StepNames)

C6_Wanted(rec) ==
    /\ rec["assembly_level"] = "Complete Genome"
    /\ rec["version_status"] = "latest"
    /\ rec["refseq_category"] \in {"representative genome", "reference genome"}

\* C6: the rows of assembly_summary_filtered.tsv and the records the loop
\* iterates are exactly the parsed records, in catalog order, that are Complete
\* Genome, latest and a representative or reference genome.
C6_FilteredIsTheMatchingSubsequence ==
    FilteredWritten =>
        LET wanted == SelectSeq(assembly_summary, C6_Wanted)
        IN  /\ assembly_summary_filtered = wanted
            /\ snapshots[FilteredName] =
                   << assembly_summary_header >>
                   \o [ n \in 1..Len(wanted) |->
                          [ c \in 1..Len(assembly_summary_header) |->
                              wanted[n][assembly_summary_header[c]] ] ]
            /\ \A n \in 1..Len(trace) : trace[n].rec <= Len(wanted)
            /\ \A n \in 1..Len(trace) :
                   trace[n].step = "CreateDir" =>
                       wanted[trace[n].rec]["assembly_accession"] \in DOMAIN dirs
            /\ pc = "Done" =>
                   \A w \in 1..Len(wanted) :
                       wanted[w]["assembly_accession"] \in DOMAIN dirs

C6_Witness ==
    /\ pc = "Done"
    /\ Len(assembly_summary) = 2
    /\ Len(assembly_summary_filtered) = 1
    /\ Len(snapshots[FilteredName]) = 2
    /\ "CreateDir" \in StepsOf(1)

\* ------------------------------------------------------------------- C7
MainSteps ==
    << "FetchCatalog", "WriteFullSnapshot", "Filter", "WriteFilteredSnapshot" >>

\* C7: a run takes FetchCatalog, WriteFullSnapshot, Filter, WriteFilteredSnapshot,
\* then only per-record steps, then Done; once a per-record step was taken both
\* snapshot files hold what this run wrote before it.
C7_RunOrder ==
    /\ \A n \in 1..Len(trace) :
          IF n <= Len(MainSteps)
          THEN trace[n].step = MainSteps[n] /\ trace[n].rec = 0
          ELSE \/ trace[n].rec > 0 /\ trace[n].step \notin Range(MainSteps) \cup {"Done"}
               \/ trace[n].step = "Done" /\ n = Len(trace) /\ pc = "Done"
    /\ pc = "Done" => trace # << >> /\ trace[Len(trace)].step = "Done"
    /\ Len(trace) > Len(MainSteps) =>
          /\ snapshots[FullName] = << >>
          /\ snapshots[FilteredName] =
                 FilteredSnapshot(assembly_summary_header, assembly_summary_filtered)

C7_Witness ==
    /\ pc = "Done"
    /\ "Emit" \in StepsOf(1)
    /\ "Emit" \in StepsOf(2)

\* ------------------------------------------------------------------- C8
\* C8: the events of a run are, in order, one per record whose
\* download_and_check returned, with that record's accession and the number of
\* names in its md5checksums_failed.txt; skipped and aborted records add none,
\* and no accession ever has two events.
C8_OneEventPerCompletedRecord ==
    /\ Len(EventsOfRun) = Len(Returned)
    /\ \A k \in 1..Len(EventsOfRun) :
          LET a == AccessionOf(Returned[k])
          IN  EventsOfRun[k].message =
                  [ event_type |-> "download_complete",
                    assembly_accession |-> a,
                    num_md5_checksums_failed |-> LineCount(dirs[a][SidecarName]) ]
    /\ \A m, n \in 1..Len(events) :
          events[m].message.assembly_accession = events[n].message.assembly_accession
              => m = n

C8_Witness ==
    /\ pc = "Aborted"
    /\ idx = 2
    /\ InCall
    /\ Len(EventsOfRun) = 1
    /\ EventsOfRun[1].message.num_md5_checksums_failed = 2

\* ------------------------------------------------------------------- C9
\* C9: if a parsed record lacks a field the filter names, filtering ends the
\* run with KeyError: Filter is its last step, assembly_summary_filtered.tsv is
\* not written and no record directory is created.
C9_MissingFilterFieldAborts ==
    ( /\ "Filter" \in Range(StepNames)
      /\ \E r \in 1..Len(assembly_summary) :
            {"assembly_level", "version_status", "refseq_category"}
                \ DOMAIN assembly_summary[r] # {} )
    => /\ pc = "Aborted"
       /\ error = "KeyError"
       /\ trace[Len(trace)].step = "Filter"
       /\ FilteredName \notin DOMAIN snapshots
       /\ DOMAIN dirs = {}

C9_Witness ==
    /\ pc = "Aborted"
    /\ error = "KeyError"
    /\ trace[Len(trace)].step = "Filter"
    /\ Len(assembly_summary) = 2

\* ------------------------------------------------------------------ C10
\* C10: an exception raised while record k is processed ends the run there: the
\* run is aborted with k the record of its last step, no event with k's
\* accession is logged, and the only thing that follows is a new run.
C10_FatalErrorHaltsRun ==
    [][ /\ error' # "" => pc' = "Aborted"
        /\ ( /\ pc' = "Aborted"
             /\ error' \in {"ConnectionError", "CalledProcessError"}
             /\ trace'[Len(trace')].rec > 0 )
           => /\ trace'[Len(trace')].rec = idx'
              /\ \A n \in 1..Len(trace') : trace'[n].rec <= idx'
              /\ \A n \in 1..Len(events') :
                    events'[n].message.assembly_accession # AccessionOf(idx')
        /\ pc = "Aborted" => run' = run + 1 /\ trace' = << >>
      ]_vars

C10_Witness ==
    /\ pc = "Aborted"
    /\ error = "CalledProcessError"
    /\ idx = 1
    /\ Len(assembly_summary_filtered) = 2
    /\ AccessionOf(1) # AccessionOf(2)

\* ------------------------------------------------------------------ C11
\* C11: once main has written the full snapshot, assembly_summary_full.tsv
\* holds the catalog header line and no data row.
C11_FullSnapshotIsHeaderOnly ==
    "WriteFullSnapshot" \in Range(StepNames) =>
        snapshots[FullName] = << assembly_summary_header >>

\* ------------------------------------------------------------------ C12
\* The lines that split on whitespace into exactly two tokens.
C12_Entries ==
    { i \in 1..Len(arg) : Len(SplitWs(arg[i])) = 2 }

\* The second token of line i without its first two characters.
C12_Name(i) ==
    LET token == SplitWs(arg[i])[2] IN SubSeq(token, 3, Len(token))

\* C12: parse_md5checksums_lines maps f to c iff the last two-token line whose
\* second token without its first two characters is f has first token c; lines
\* of 0, 1 or 3+ tokens add nothing and the last occurrence of a filename wins.
C12_ManifestMapsLastOccurrence ==
    (fn = "parse_md5checksums_lines" /\ pc = "Return") =>
        /\ DOMAIN ret = { C12_Name(i) : i \in C12_Entries }
        /\ \A f \in DOMAIN ret :
              LET last == CHOOSE i \in C12_Entries :
                              /\ C12_Name(i) = f
                              /\ \A j \in C12_Entries : C12_Name(j) = f => j <= i
              IN  ret[f] = SplitWs(arg[last])[1]

C12_Witness ==
    /\ fn = "parse_md5checksums_lines"
    /\ pc = "Return"
    /\ arg = << "aa  ./f.txt", "bb  ./f.txt", "dd ./f.txt extra" >>
    /\ ret["f.txt"] = "bb"

\* ------------------------------------------------------------------ C13
\* C13: normalising a normalised name changes nothing, and a normalised name
\* holds no space, '(', ')' or '/' and no two underscores in a row.
C13_NormalizationIdempotent ==
    (fn = "assembly_name" /\ pc = "Return") =>
        /\ NormalizeName(ret) = ret
        /\ \A i \in 1..Len(ret) :
              /\ CharAt(ret, i) \notin {" ", "(", ")", "/"}
              /\ i < Len(ret) => SubSeq(ret, i, i + 1) # "__"

C13_Witness ==
    /\ fn = "assembly_name"
    /\ pc = "Return"
    /\ arg = "a (/"
    /\ ret = "a_"

\* ------------------------------------------------------------------ C18
\* C18: for each of the four assets, the bytes on disk and the bytes hashed are
\* the bytes the fetch returned.
C18_PersistedBytesAreFetchedBytes ==
    (fn = "write" /\ pc = "Return") =>
        /\ ret.bytes = arg.body
        /\ ret.md5 = MD5(arg.body)

\* ------------------------------------------------------------------ C14
IsPrefix(a, b) ==
    /\ Len(a) <= Len(b)
    /\ SubSeq(b, 1, Len(a)) = a

\* The steps the current run took for filtered record i, in order.
StepSeq(i) ==
    LET own == SelectSeq(trace, LAMBDA t : t.rec = i)
    IN  [ n \in 1..Len(own) |-> own[n].step ]

\* The steps of a record that is not skipped and has k verified archives.
C14_Steps(k) ==
    << "CheckIdempotency", "CreateDir", "FetchManifest",
       "FetchAsset", "FetchAsset", "FetchAsset", "FetchAsset",
       "WriteFailureList", "Glob" >>
    \o [ n \in 1..k |-> "Gunzip" ] \o << "Emit" >>

C14_Suffixes ==
    << "assembly_report.txt", "assembly_stats.txt", "genomic.fna.gz", "genomic.gff.gz" >>

C15_OnlyVerifiedArchivesGunzipped ==
    InCall =>
        LET stem == assembly["assembly_accession"] \o "_"
                        \o NormalizeName(assembly["asm_name"]) \o "_"
        IN  \A f \in gunzipped \cup Range(gzip_files) :
                /\ EndsWith(f, ".gz")
                /\ f \notin Range(md5checksums_failed)
                /\ \E n \in 1..Len(verdicts) :
                      /\ verdicts[n] = "Verified"
                      /\ f = stem \o C14_Suffixes[n]

C15_Witness ==
    /\ pc = "Extract"
    /\ InCall
    /\ verdicts[3] = "ChecksumMismatch"
    /\ verdicts[4] = "Verified"
    /\ Cardinality(gunzipped) = 1
    /\ gzip_files = << >>

\* ------------------------------------------------------------------ C16
\* The filtered records the current run called os.makedirs for, in that order.
CreatedInRun ==
    LET made == SelectSeq(trace, LAMBDA t : t.step = "CreateDir")
    IN  [ n \in 1..Len(made) |-> made[n].rec ]

\* The directories that existed when the current run started.
PresentAtStart ==
    (DOMAIN dirs) \ { AccessionOf(CreatedInRun[n]) : n \in 1..Len(CreatedInRun) }

\* The filtered records whose directory did not exist when the run started, each
\* directory counted once, in the order of the filtered list.
NotPreviouslyPresent ==
    SelectSeq([ n \in 1..Len(assembly_summary_filtered) |-> n ],
              LAMBDA i : /\ AccessionOf(i) \notin PresentAtStart
                         /\ \A j \in 1..(i - 1) : AccessionOf(j) # AccessionOf(i))

\* C16: the records are worked on one at a time in the order of the filtered
\* list, a directory is created only after every record created before it has
\* emitted its completion event; at every point, after an abort too, the records
\* created in this run are a prefix of the not previously present ones and only
\* the last of them may lack its completion event.
C16_OneRecordAtATime ==
    /\ LET own == SelectSeq(trace, LAMBDA t : t.rec > 0)
       IN  \A n \in 1..(Len(own) - 1) : own[n].rec <= own[n + 1].rec
    /\ LET at == SelectSeq([ n \in 1..Len(trace) |-> n ],
                           LAMBDA n : trace[n].step = "CreateDir")
       IN  \A k \in 1..(Len(at) - 1) :
               \E e \in (at[k] + 1)..(at[k + 1] - 1) :
                   trace[e].step = "Emit" /\ trace[e].rec = trace[at[k]].rec
    /\ IsPrefix(CreatedInRun, NotPreviouslyPresent)
    /\ \A k \in 1..Len(CreatedInRun) :
          LET logged == \E e \in 1..Len(EventsOfRun) :
                            EventsOfRun[e].message.assembly_accession
                                = AccessionOf(CreatedInRun[k])
          IN  IF k < Len(CreatedInRun) THEN logged
              ELSE logged <=> "Emit" \in StepsOf(CreatedInRun[k])

C16_Witness ==
    /\ pc = "Aborted"
    /\ error = "ConnectionError"
    /\ CreatedInRun = << 1, 2 >>
    /\ Len(EventsOfRun) = 1
    /\ "FetchAsset" \in StepsOf(2)

\* ------------------------------------------------------------------ C17
\* The directory download_and_check is filling right now, if any.
InProgress ==
    IF pc \in {"FetchManifest", "FetchAsset", "WriteFailureList", "Glob", "Extract"}
    THEN {assembly_outdir} ELSE {}

\* The directories of the records a run stopped in the middle of: created, no
\* completion event logged for them, and no call working on them.
Stranded ==
    { a \in DOMAIN dirs :
        \A e \in 1..Len(events) : events[e].message.assembly_accession # a }
    \ InProgress

\* C17: once a run has stopped in the middle of a record (a fatal error or the
\* end of the process after the directory was created), every later run only
\* checks that record's directory and skips it: nothing is fetched or written
\* for it, no completion event is logged for it, and its directory stays as the
\* stopped run left it.
C17_ResumeGap ==
    [][ \A a \in Stranded :
            /\ a \in Stranded'
            /\ dirs'[a] = dirs[a]
            /\ pc # "Aborted" =>
                  \A i \in 1..Len(assembly_summary_filtered') :
                      AccessionOf(i)' = a => StepsOf(i)' \subseteq {"CheckIdempotency"}
      ]_vars

C17_Witness ==
    /\ run = 2
    /\ pc = "Done"
    /\ \E i \in present :
          /\ AccessionOf(i) \in Stranded
          /\ ManifestName \in DOMAIN dirs[AccessionOf(i)]
          /\ SidecarName \notin DOMAIN dirs[AccessionOf(i)]

\* ------------------------------------------------------------------ C19
\* The asset files of a record directory: all but the manifest and the sidecar.
AssetFiles(dir) ==
    (DOMAIN dir) \ {ManifestName, SidecarName}

\* C19: the directory of every record with a completion event holds
\* md5checksums.txt and md5checksums_failed.txt, no file ending in '.gz', and
\* at most four asset files, the archives decompressed under their name without
\* '.gz'; the asset files and the failures the event counts add up to four.
C19_CompletedDirectoryShape ==
    \A e \in 1..Len(events) :
        LET dir == dirs[events[e].message.assembly_accession]
        IN  /\ ManifestName \in DOMAIN dir
            /\ SidecarName \in DOMAIN dir
            /\ \A f \in DOMAIN dir : ~EndsWith(f, ".gz")
            /\ \A f \in AssetFiles(dir) :
                  \/ EndsWith(f, "_assembly_report.txt")
                  \/ EndsWith(f, "_assembly_stats.txt")
                  \/ EndsWith(f, "_genomic.fna")
                  \/ EndsWith(f, "_genomic.gff")
            /\ Cardinality(AssetFiles(dir)) <= 4
            /\ Cardinality(AssetFiles(dir)) + events[e].message.num_md5_checksums_failed = 4

C19_Witness ==
    /\ pc = "Done"
    /\ \E e \in 1..Len(events) :
          LET dir == dirs[events[e].message.assembly_accession]
          IN  /\ events[e].message.num_md5_checksums_failed = 1
              /\ Cardinality(AssetFiles(dir)) = 3
              /\ \E f \in AssetFiles(dir) : EndsWith(f, "_genomic.fna")
              /\ \E f \in AssetFiles(dir) : EndsWith(f, "_genomic.gff")

====
